---- MODULE Spec2Model ----
(***************************************************************************)
(* Model of the telemetry ingestion service in src/main.py: the devices    *)
(* and measurements tables created by init_db, the device registry         *)
(* get_or_create_device, the POST /ingest handler and the GET /last        *)
(* handler, run by concurrent request handlers that share the database.   *)
(*                                                                         *)
(* Python values are modelled as follows.  A dict is a TLA+ record (a      *)
(* function on strings); d[k] raises KeyError when k is not in DOMAIN d.   *)
(* None / SQL NULL is the empty tuple <<>> and a present nullable value v  *)
(* is <<v>>.  Floating-point sensor values are small integers.             *)
(***************************************************************************)
EXTENDS Integers, Sequences, FiniteSets, TLC

\* ---------------------------------------------------------------- bounds
NumProcs == 2
MaxCalls == 2
MaxRecords == 2

Procs == 1..NumProcs

\* ---------------------------------------------------------------- values
None == <<>>
Some(v) == <<v>>

\* dict.get(k): the value wrapped as present, or None
Get(d, k) == IF k \in DOMAIN d THEN Some(d[k]) ELSE None

\* External device identifiers the clients use.  "1" is a string of digits,
\* "devA" is not.
DeviceIds == {"1", "devA"}

\* The integer a string literal denotes when PostgreSQL coerces it to
\* INTEGER; strings outside the domain are not valid integer literals.
IntLiteral == [s \in {"1", "2", "3"} |-> CASE s = "1" -> 1 [] s = "2" -> 2 [] s = "3" -> 3]

\* ------------------------------------------------------- sample payloads
FullData ==
  [accelerometer |-> [x |-> 1, y |-> 2, z |-> 3],
   gyroscope     |-> [x |-> 4, y |-> 5, z |-> 6],
   magnetometer  |-> [x |-> 7, y |-> 8, z |-> 9],
   light         |-> 10,
   location      |-> [lat |-> 11, long |-> 12, speed |-> 13],
   micLevel      |-> 14,
   barometer     |-> [pressure |-> 15]]

\* the same sample without the optional light and micLevel
BareData ==
  [accelerometer |-> [x |-> 1, y |-> 2, z |-> 3],
   gyroscope     |-> [x |-> 4, y |-> 5, z |-> 6],
   magnetometer  |-> [x |-> 7, y |-> 8, z |-> 9],
   location      |-> [lat |-> 11, long |-> 12, speed |-> 13],
   barometer     |-> [pressure |-> 15]]

\* d without key k
Drop(d, k) == [j \in DOMAIN d \ {k} |-> d[j]]

\* d with the dict under key k stripped of its key leaf
DropLeaf(d, k, leaf) == [j \in DOMAIN d |-> IF j = k THEN Drop(d[j], leaf) ELSE d[j]]

Rec100 == [timestamp |-> 100, timestampISO |-> "iso100", data |-> FullData]
Rec300 == [timestamp |-> 300, timestampISO |-> "iso300", data |-> BareData]
RecNoTs == [data |-> FullData]
RecNoData == [timestamp |-> 200, timestampISO |-> "iso200"]
RecNoPressure == [timestamp |-> 200, data |-> DropLeaf(BareData, "barometer", "pressure")]

GoodRecords == {Rec100, Rec300, RecNoTs}
BadRecords == {RecNoData, RecNoPressure}
SampleRecords == GoodRecords \cup BadRecords

\* a record for every way of lacking one sensor object or one of its fields
SensorFields ==
  [accelerometer |-> {"x", "y", "z"}, gyroscope |-> {"x", "y", "z"},
   magnetometer |-> {"x", "y", "z"}, location |-> {"lat", "long", "speed"},
   barometer |-> {"pressure"}]
DefectRecords ==
  {[timestamp |-> 200, data |-> Drop(FullData, k)] : k \in DOMAIN SensorFields}
    \cup UNION {{[timestamp |-> 200, data |-> DropLeaf(FullData, k, leaf)] : leaf \in SensorFields[k]}
                  : k \in DOMAIN SensorFields}

RecordSeqs == UNION {[1..n -> SampleRecords] : n \in 0..MaxRecords}

\* request bodies of POST /ingest: well-shaped ones, and ones that lack
\* metadata, metadata.deviceId or records
GoodPayloads ==
  {[metadata |-> [deviceId |-> e], records |-> rs] : e \in DeviceIds, rs \in RecordSeqs}
    \cup {[metadata |-> [deviceId |-> "devA"], records |-> <<r>>] : r \in DefectRecords}
BadPayloads ==
  {[records |-> <<Rec100>>],
   [metadata |-> [model |-> "m"], records |-> <<Rec100>>],
   [metadata |-> [deviceId |-> "devA"]]}
Payloads == GoodPayloads \cup BadPayloads

\* ---------------------------------------------------------------- schema
\* columns of the measurements table besides the SERIAL id
MeasurementColumns ==
  <<"device_id", "timestamp", "timestamp_iso",
    "accel_x", "accel_y", "accel_z",
    "gyro_x", "gyro_y", "gyro_z",
    "mag_x", "mag_y", "mag_z",
    "light", "lat", "long", "speed",
    "mic_level", "pressure">>

Range(f) == {f[i] : i \in DOMAIN f}

VARIABLES
  devices,           \* committed rows of table devices: [id, device_id]
  devices_id_seq,    \* last value handed out by the SERIAL of devices.id
  pending,           \* per handler: its inserted, not yet committed device row
  measurements,      \* committed rows of table measurements
  measurements_id_seq,
  pc,                \* per handler: position in the request it is serving
  op,                \* per handler: the endpoint of its current/last request
  payload,           \* per handler: body of the ingest request
  path_device_id,    \* per handler: path parameter of GET /last/{device_id}
  device_external_id,
  records,
  result,            \* get_or_create_device: row fetched by the SELECT
  device_id,         \* internal id returned by get_or_create_device
  rows,              \* ingest: the tuples built for execute_batch
  response,          \* per handler: response of its last finished request
  written,           \* per handler: ids of the measurement rows its current/last request committed
  ncalls             \* per handler: number of requests started

dbvars == <<devices, devices_id_seq, pending, measurements, measurements_id_seq>>
locals == <<payload, path_device_id, device_external_id, records, result, device_id, rows>>
vars == <<dbvars, pc, op, locals, response, written, ncalls>>

NoResponse == [status |-> 0]

\* ---------------------------------------------------------- constraints
\* variant: the devices table without the UNIQUE constraint
UniqueViolationNoConstraint(table, ext) == FALSE

\* devices.device_id TEXT UNIQUE: a committed row with the same external id
UniqueViolation(table, ext) == \E d \in table : d.device_id = ext

\* measurements.device_id INTEGER REFERENCES devices(id): a NULL reference
\* passes, any other must be the id of a device row
ForeignKeyOk(table, ref) == ref = None \/ \E d \in table : Some(d.id) = ref

\* ------------------------------------------------------------- responses
HTTPException400 == [status |-> 400, detail |-> "Formato JSON invalido"]
ServerError(exc) == [status |-> 500, exception |-> exc]
IngestOk(n, ext) == [status |-> 200, body |-> [status |-> "ok", inserted |-> n, device |-> ext]]

\* --------------------------------------------------------------- ingest
\* variant: records read with payload.get("records", [])
ParseTopLevelLenient(p) ==
  IF "metadata" \notin DOMAIN p THEN [ok |-> FALSE]
  ELSE IF "deviceId" \notin DOMAIN p.metadata THEN [ok |-> FALSE]
  ELSE [ok |-> TRUE, device_external_id |-> p.metadata.deviceId,
        records |-> IF "records" \in DOMAIN p THEN p.records ELSE <<>>]

\* the try block: payload["metadata"]["deviceId"] and payload["records"]
ParseTopLevel(p) ==
  IF "metadata" \notin DOMAIN p THEN [ok |-> FALSE]
  ELSE IF "deviceId" \notin DOMAIN p.metadata THEN [ok |-> FALSE]
  ELSE IF "records" \notin DOMAIN p THEN [ok |-> FALSE]
  ELSE [ok |-> TRUE, device_external_id |-> p.metadata.deviceId, records |-> p.records]

\* the subscripts data[k][leaf] of the tuple, in evaluation order
RequiredPaths ==
  <<<<"accelerometer", "x">>, <<"accelerometer", "y">>, <<"accelerometer", "z">>,
    <<"gyroscope", "x">>, <<"gyroscope", "y">>, <<"gyroscope", "z">>,
    <<"magnetometer", "x">>, <<"magnetometer", "y">>, <<"magnetometer", "z">>,
    <<"location", "lat">>, <<"location", "long">>, <<"location", "speed">>,
    <<"barometer", "pressure">>>>

PathMissing(data, path) ==
  path[1] \notin DOMAIN data \/ path[2] \notin DOMAIN data[path[1]]

\* the key of the KeyError building the tuple of a record raises, "" if none
RecordKeyError(record) ==
  IF "data" \notin DOMAIN record THEN "data"
  ELSE LET data == record.data
           bad == {i \in DOMAIN RequiredPaths : PathMissing(data, RequiredPaths[i])}
       IN IF bad = {} THEN ""
          ELSE LET i == CHOOSE j \in bad : \A k \in bad : j <= k
                   path == RequiredPaths[i]
               IN IF path[1] \notin DOMAIN data THEN path[1] ELSE path[2]

\* variant: the first two elements of the tuple in the wrong order
RowOfSwapped(dev, record) ==
  LET data == record.data IN
  [device_id |-> Get(record, "timestamp"),
   timestamp |-> Some(dev),
   timestamp_iso |-> Get(record, "timestampISO"),
   accel_x |-> data.accelerometer.x,
   accel_y |-> data.accelerometer.y,
   accel_z |-> data.accelerometer.z,
   gyro_x |-> data.gyroscope.x,
   gyro_y |-> data.gyroscope.y,
   gyro_z |-> data.gyroscope.z,
   mag_x |-> data.magnetometer.x,
   mag_y |-> data.magnetometer.y,
   mag_z |-> data.magnetometer.z,
   light |-> Get(data, "light"),
   lat |-> data.location.lat,
   long |-> data.location.long,
   speed |-> data.location.speed,
   mic_level |-> Get(data, "micLevel"),
   pressure |-> data.barometer.pressure]

\* the tuple rows.append builds for a record without KeyError
RowOf(dev, record) ==
  LET data == record.data IN
  [device_id |-> Some(dev),
   timestamp |-> Get(record, "timestamp"),
   timestamp_iso |-> Get(record, "timestampISO"),
   accel_x |-> data.accelerometer.x,
   accel_y |-> data.accelerometer.y,
   accel_z |-> data.accelerometer.z,
   gyro_x |-> data.gyroscope.x,
   gyro_y |-> data.gyroscope.y,
   gyro_z |-> data.gyroscope.z,
   mag_x |-> data.magnetometer.x,
   mag_y |-> data.magnetometer.y,
   mag_z |-> data.magnetometer.z,
   light |-> Get(data, "light"),
   lat |-> data.location.lat,
   long |-> data.location.long,
   speed |-> data.location.speed,
   mic_level |-> Get(data, "micLevel"),
   pressure |-> data.barometer.pressure]

\* variant: a record that raises KeyError is skipped (try/except in the loop)
BuildRowsSkipDefective(dev, recs) ==
  LET Sound(r) == RecordKeyError(r) = ""
      kept == SelectSeq(recs, Sound)
  IN [ok |-> TRUE, rows |-> [i \in DOMAIN kept |-> RowOf(dev, kept[i])]]

\* the for loop over records: all tuples, or the first KeyError
BuildRows(dev, recs) ==
  LET bad == {i \in DOMAIN recs : RecordKeyError(recs[i]) # ""} IN
  IF bad = {} THEN [ok |-> TRUE, rows |-> [i \in DOMAIN recs |-> RowOf(dev, recs[i])]]
  ELSE [ok |-> FALSE, key |-> RecordKeyError(recs[CHOOSE j \in bad : \A k \in bad : j <= k])]

\* the measurement rows execute_batch inserts: tuple i gets id seq + i
BatchRows(tuples, seq) ==
  {[c \in {"id"} \cup DOMAIN tuples[i] |-> IF c = "id" THEN seq + i ELSE tuples[i][c]]
     : i \in DOMAIN tuples}

RECURSIVE SumCalls(_)
SumCalls(S) == IF S = {} THEN 0 ELSE LET q == CHOOSE q \in S : TRUE IN ncalls[q] + SumCalls(S \ {q})

CanStart(p) == pc[p] = "idle" /\ SumCalls(Procs) < MaxCalls

Finish(p, resp) ==
  /\ pc' = [pc EXCEPT ![p] = "idle"]
  /\ response' = [response EXCEPT ![p] = resp]

\* ------------------------------------------------- get_or_create_device
\* variant: a SELECT whose WHERE clause never matches
SelectDeviceNoMatch(table, ext) == None

\* SELECT id FROM devices WHERE device_id = %s; fetchone(): a row or None
SelectDevice(table, ext) ==
  IF \E d \in table : d.device_id = ext
  THEN Some((CHOOSE d \in table : d.device_id = ext).id)
  ELSE None

\* The INSERT of a handler waits while another transaction holds an
\* uncommitted row with the same key in the unique index.
InsertBlocked(p) ==
  \E q \in Procs \ {p} : pending[q] # None /\ pending[q][1].device_id = device_external_id[p]

\* --------------------------------------------------------------- actions
Init ==
  /\ devices = {}
  /\ devices_id_seq = 0
  /\ pending = [p \in Procs |-> None]
  /\ measurements = {}
  /\ measurements_id_seq = 0
  /\ pc = [p \in Procs |-> "idle"]
  /\ op = [p \in Procs |-> "none"]
  /\ payload = [p \in Procs |-> <<>>]
  /\ path_device_id = [p \in Procs |-> ""]
  /\ device_external_id = [p \in Procs |-> ""]
  /\ records = [p \in Procs |-> <<>>]
  /\ result = [p \in Procs |-> None]
  /\ device_id = [p \in Procs |-> 0]
  /\ rows = [p \in Procs |-> <<>>]
  /\ response = [p \in Procs |-> NoResponse]
  /\ written = [p \in Procs |-> {}]
  /\ ncalls = [p \in Procs |-> 0]

\* POST /ingest arrives at handler p with the given body; the try block runs
Ingest(p, body) ==
  /\ CanStart(p)
  /\ ncalls' = [ncalls EXCEPT ![p] = @ + 1]
  /\ op' = [op EXCEPT ![p] = "ingest"]
  /\ payload' = [payload EXCEPT ![p] = body]
  /\ path_device_id' = [path_device_id EXCEPT ![p] = ""]
  /\ result' = [result EXCEPT ![p] = None]
  /\ device_id' = [device_id EXCEPT ![p] = 0]
  /\ rows' = [rows EXCEPT ![p] = <<>>]
  /\ written' = [written EXCEPT ![p] = {}]
  /\ LET parsed == ParseTopLevel(body) IN
     IF parsed.ok
     THEN /\ device_external_id' = [device_external_id EXCEPT ![p] = parsed.device_external_id]
          /\ records' = [records EXCEPT ![p] = parsed.records]
          /\ pc' = [pc EXCEPT ![p] = "select"]
          /\ response' = [response EXCEPT ![p] = NoResponse]
     ELSE /\ device_external_id' = [device_external_id EXCEPT ![p] = ""]
          /\ records' = [records EXCEPT ![p] = <<>>]
          /\ Finish(p, HTTPException400)
  /\ UNCHANGED dbvars

\* get_or_create_device: the SELECT and the branch on its result
Select(p) ==
  /\ pc[p] = "select"
  /\ LET res == SelectDevice(devices, device_external_id[p]) IN
     /\ result' = [result EXCEPT ![p] = res]
     /\ IF res # None
        THEN /\ device_id' = [device_id EXCEPT ![p] = res[1]]
             /\ pc' = [pc EXCEPT ![p] = "build"]
        ELSE /\ pc' = [pc EXCEPT ![p] = "insert"]
             /\ UNCHANGED device_id
  /\ UNCHANGED <<dbvars, op, payload, path_device_id, device_external_id, records, rows,
                 response, written, ncalls>>

\* variant: INSERT ... ON CONFLICT DO NOTHING followed by a re-read of the id
InsertDeviceUpsert(p) ==
  /\ pc[p] = "insert"
  /\ ~InsertBlocked(p)
  /\ devices_id_seq' = devices_id_seq + 1
  /\ IF UniqueViolation(devices, device_external_id[p])
     THEN /\ device_id' = [device_id EXCEPT ![p] = SelectDevice(devices, device_external_id[p])[1]]
          /\ pc' = [pc EXCEPT ![p] = "build"]
          /\ UNCHANGED pending
     ELSE /\ pending' = [pending EXCEPT ![p] =
                 Some([id |-> devices_id_seq + 1, device_id |-> device_external_id[p]])]
          /\ device_id' = [device_id EXCEPT ![p] = devices_id_seq + 1]
          /\ pc' = [pc EXCEPT ![p] = "commit"]
  /\ UNCHANGED <<devices, measurements, measurements_id_seq, op, payload, path_device_id,
                 device_external_id, records, result, rows, response, written, ncalls>>

\* get_or_create_device: INSERT INTO devices ... RETURNING id
InsertDevice(p) ==
  /\ pc[p] = "insert"
  /\ ~InsertBlocked(p)
  /\ devices_id_seq' = devices_id_seq + 1
  /\ IF UniqueViolation(devices, device_external_id[p])
     THEN /\ Finish(p, ServerError("UniqueViolation"))
          /\ UNCHANGED <<pending, device_id>>
     ELSE /\ pending' = [pending EXCEPT ![p] =
                 Some([id |-> devices_id_seq + 1, device_id |-> device_external_id[p]])]
          /\ device_id' = [device_id EXCEPT ![p] = devices_id_seq + 1]
          /\ pc' = [pc EXCEPT ![p] = "commit"]
          /\ UNCHANGED response
  /\ UNCHANGED <<devices, measurements, measurements_id_seq, op, payload, path_device_id,
                 device_external_id, records, result, rows, written, ncalls>>

\* get_or_create_device: conn.commit() and return
CommitDevice(p) ==
  /\ pc[p] = "commit"
  /\ devices' = devices \cup {pending[p][1]}
  /\ pending' = [pending EXCEPT ![p] = None]
  /\ pc' = [pc EXCEPT ![p] = "build"]
  /\ UNCHANGED <<devices_id_seq, measurements, measurements_id_seq, op, locals, response,
                 written, ncalls>>

\* ingest: the for loop that builds rows
Build(p) ==
  /\ pc[p] = "build"
  /\ LET built == BuildRows(device_id[p], records[p]) IN
     IF built.ok
     THEN /\ rows' = [rows EXCEPT ![p] = built.rows]
          /\ pc' = [pc EXCEPT ![p] = "batch"]
          /\ UNCHANGED response
     ELSE /\ Finish(p, ServerError("KeyError"))
          /\ UNCHANGED rows
  /\ UNCHANGED <<dbvars, op, payload, path_device_id, device_external_id, records, result,
                 device_id, written, ncalls>>

\* ingest: execute_batch, conn.commit() and the response
ExecuteBatch(p) ==
  /\ pc[p] = "batch"
  /\ LET bad == {i \in DOMAIN rows[p] : ~ForeignKeyOk(devices, rows[p][i].device_id)} IN
     IF bad = {}
     THEN LET new == BatchRows(rows[p], measurements_id_seq) IN
          /\ measurements' = measurements \cup new
          /\ measurements_id_seq' = measurements_id_seq + Len(rows[p])
          /\ written' = [written EXCEPT ![p] = {m.id : m \in new}]
          /\ Finish(p, IngestOk(Len(rows[p]), device_external_id[p]))
     ELSE /\ measurements_id_seq' = measurements_id_seq + (CHOOSE j \in bad : \A k \in bad : j <= k)
          /\ Finish(p, ServerError("ForeignKeyViolation"))
          /\ UNCHANGED <<measurements, written>>
  /\ UNCHANGED <<devices, devices_id_seq, pending, op, locals, ncalls>>

\* ------------------------------------------------- get_last_measurement
\* the select list of the query
SelectColumns ==
  <<"timestamp_iso",
    "accel_x", "accel_y", "accel_z",
    "gyro_x", "gyro_y", "gyro_z",
    "mag_x", "mag_y", "mag_z",
    "light",
    "latitude", "longitude", "speed",
    "pressure">>

\* WHERE device_id = %s with the integer the string parameter denotes
WhereDevice(table, n) == {m \in table : m.device_id = Some(n)}

\* ORDER BY timestamp DESC LIMIT 1: NULL sorts before every value in
\* descending order; among equal keys any row may come first
OrderByTimestampDescFirst(cands) ==
  IF \E m \in cands : m.timestamp = None
  THEN {m \in cands : m.timestamp = None}
  ELSE {m \in cands : \A o \in cands : o.timestamp[1] <= m.timestamp[1]}

NoDataFound == [status |-> 200, body |-> [error |-> "No data found"]]

\* the JSON object built from the fetched row
LastBody(m) ==
  LET row == [i \in DOMAIN SelectColumns |-> m[SelectColumns[i]]] IN
  [status |-> 200,
   body |-> [timestamp |-> row[1],
             accelerometer |-> [x |-> row[2], y |-> row[3], z |-> row[4]],
             gyroscope |-> [x |-> row[5], y |-> row[6], z |-> row[7]],
             magnetometer |-> [x |-> row[8], y |-> row[9], z |-> row[10]],
             light |-> row[11],
             location |-> [lat |-> row[12], long |-> row[13], speed |-> row[14]],
             pressure |-> row[15]]]

\* the responses the handler can give for a path parameter
LastResponses(table, ext) ==
  IF ~(Range(SelectColumns) \subseteq Range(MeasurementColumns) \cup {"id"})
  THEN {ServerError("UndefinedColumn")}
  ELSE IF ext \notin DOMAIN IntLiteral
  THEN {ServerError("InvalidTextRepresentation")}
  ELSE LET cands == WhereDevice(table, IntLiteral[ext]) IN
       IF cands = {} THEN {NoDataFound}
       ELSE {LastBody(m) : m \in OrderByTimestampDescFirst(cands)}

\* GET /last/{device_id} served by handler p
GetLast(p, ext) ==
  /\ CanStart(p)
  /\ ncalls' = [ncalls EXCEPT ![p] = @ + 1]
  /\ op' = [op EXCEPT ![p] = "last"]
  /\ path_device_id' = [path_device_id EXCEPT ![p] = ext]
  /\ payload' = [payload EXCEPT ![p] = <<>>]
  /\ device_external_id' = [device_external_id EXCEPT ![p] = ""]
  /\ records' = [records EXCEPT ![p] = <<>>]
  /\ result' = [result EXCEPT ![p] = None]
  /\ device_id' = [device_id EXCEPT ![p] = 0]
  /\ rows' = [rows EXCEPT ![p] = <<>>]
  /\ written' = [written EXCEPT ![p] = {}]
  /\ \E resp \in LastResponses(measurements, ext) : Finish(p, resp)
  /\ UNCHANGED dbvars

Next ==
  \/ \E p \in Procs, body \in Payloads : Ingest(p, body)
  \/ \E p \in Procs : Select(p)
  \/ \E p \in Procs : InsertDevice(p)
  \/ \E p \in Procs : CommitDevice(p)
  \/ \E p \in Procs : Build(p)
  \/ \E p \in Procs : ExecuteBatch(p)
  \/ \E p \in Procs, ext \in DeviceIds : GetLast(p, ext)

Spec == Init /\ [][Next]_vars

\* ======================================================= claim vocabulary
\* the request of handler p has been answered
Done(p) == pc[p] = "idle" /\ response[p] # NoResponse
IngestDone(p) == op[p] = "ingest" /\ Done(p)

\* handler p takes the step that receives a request
Starts(p) == ncalls'[p] = ncalls[p] + 1

\* a body that has metadata.deviceId and records
TopLevelOk(body) ==
  /\ "metadata" \in DOMAIN body
  /\ "deviceId" \in DOMAIN body.metadata
  /\ "records" \in DOMAIN body

\* a record that has data and every required nested field
WellFormed(record) ==
  /\ "data" \in DOMAIN record
  /\ \A k \in {"accelerometer", "gyroscope", "magnetometer"} :
        k \in DOMAIN record.data /\ {"x", "y", "z"} \subseteq DOMAIN record.data[k]
  /\ "location" \in DOMAIN record.data
  /\ {"lat", "long", "speed"} \subseteq DOMAIN record.data.location
  /\ "barometer" \in DOMAIN record.data
  /\ "pressure" \in DOMAIN record.data.barometer

AllWellFormed(recs) == \A i \in DOMAIN recs : WellFormed(recs[i])

\* the measurement rows of the device with the given external id
DeviceMeasurements(ext) ==
  {m \in measurements : \E d \in devices : d.device_id = ext /\ m.device_id = Some(d.id)}

DevicesNamed(ext) == {d \in devices : d.device_id = ext}

StorageUnchanged ==
  /\ devices' = devices
  /\ measurements' = measurements
  /\ pending' = pending
  /\ devices_id_seq' = devices_id_seq
  /\ measurements_id_seq' = measurements_id_seq

\* ------------------------------------------------------------------- C1
\* C1: every finished ingest whose payload has metadata.deviceId and N
\* well-formed records has added exactly N measurement rows, all carrying
\* the internal id the registry holds for the external id, and answered
\* inserted = N with the external id echoed.
C1_IngestPersistsAll ==
  \A p \in Procs :
    (IngestDone(p) /\ TopLevelOk(payload[p]) /\ AllWellFormed(payload[p].records)) =>
      LET N == Len(payload[p].records)
          ext == payload[p].metadata.deviceId
      IN /\ response[p] = IngestOk(N, ext)
         /\ Cardinality(written[p]) = N
         /\ \A m \in measurements : m.id \in written[p] => m \in DeviceMeasurements(ext)

\* ------------------------------------------------------------------- C2
C2_Rejected ==
  \A p \in Procs :
    (op[p] = "ingest" /\ ~TopLevelOk(payload[p])) =>
      pc[p] = "idle" /\ response[p] = HTTPException400 /\ written[p] = {}

C2_NoWrite ==
  \A p \in Procs :
    (Starts(p) /\ op'[p] = "ingest" /\ ~TopLevelOk(payload'[p])) =>
      response'[p] = HTTPException400 /\ pc'[p] = "idle" /\ StorageUnchanged

C3_ExternalIdUnique ==
  \A d1 \in devices : \A d2 \in devices : d1.device_id = d2.device_id => d1 = d2

\* two handlers both read not-found for the same external id and both
\* went on to the INSERT
C3_Witness ==
  \E p \in Procs : \E q \in Procs \ {p} :
    /\ op[p] = "ingest" /\ op[q] = "ingest"
    /\ device_external_id[p] # "" /\ device_external_id[p] = device_external_id[q]
    /\ result[p] = None /\ result[q] = None
    /\ pc[p] = "idle" /\ pc[q] = "idle"
    /\ Cardinality(DevicesNamed(device_external_id[p])) = 1

\* ------------------------------------------------------------------- C4
\* C4: an ingest whose payload holds a record that lacks a required nested
\* field commits no measurement row, wherever the defective record stands,
\* and ends in a failure.
C4_DefectiveBatchFails ==
  \A p \in Procs :
    (op[p] = "ingest" /\ TopLevelOk(payload[p]) /\ ~AllWellFormed(payload[p].records)) =>
      /\ written[p] = {}
      /\ pc[p] # "batch"
      /\ Done(p) => response[p].status = 500

\* the defective record came second, after a well-formed one, the device
\* row exists and the measurements table is still empty
C4_Witness ==
  \E p \in Procs :
    /\ IngestDone(p) /\ TopLevelOk(payload[p])
    /\ Len(payload[p].records) = 2
    /\ WellFormed(payload[p].records[1])
    /\ ~WellFormed(payload[p].records[2])
    /\ response[p] = ServerError("KeyError")
    /\ DevicesNamed(payload[p].metadata.deviceId) # {}
    /\ measurements = {}

\* ------------------------------------------------------------------- C5
\* a row whose client-supplied timestamp is the maximum of a set of rows
\* (a row without a timestamp only when none of the rows has one)
HasMaxTimestamp(m, ms) ==
  IF \A o \in ms : o.timestamp = None THEN TRUE
  ELSE m.timestamp # None /\ \A o \in ms : o.timestamp # None => o.timestamp[1] <= m.timestamp[1]

\* the response object that shows a measurement row
ShownMeasurement(m) ==
  [status |-> 200,
   body |-> [timestamp |-> m.timestamp_iso,
             accelerometer |-> [x |-> m.accel_x, y |-> m.accel_y, z |-> m.accel_z],
             gyroscope |-> [x |-> m.gyro_x, y |-> m.gyro_y, z |-> m.gyro_z],
             magnetometer |-> [x |-> m.mag_x, y |-> m.mag_y, z |-> m.mag_z],
             light |-> m.light,
             location |-> [lat |-> m.lat, long |-> m.long, speed |-> m.speed],
             pressure |-> m.pressure]]

C5_LastStep ==
  \A p \in Procs :
    (Starts(p) /\ op'[p] = "last" /\ DeviceMeasurements(path_device_id'[p]) # {}) =>
      \E m \in DeviceMeasurements(path_device_id'[p]) :
        /\ HasMaxTimestamp(m, DeviceMeasurements(path_device_id'[p]))
        /\ response'[p] = ShownMeasurement(m)

\* C5: GET /last/{deviceId} for a device that has at least one persisted
\* measurement answers with the measurement of maximum client-supplied
\* timestamp among the device's measurements.
C5_LastReturnsMaxTimestamp == [][C5_LastStep]_vars

\* ------------------------------------------------------------------- C6
\* C6: GET /last/{deviceId} for a device with zero measurements (known
\* without rows, or unknown) answers the no-data sentinel as a normal
\* response, never an error status.
C6_LastNoDataSentinel ==
  \A p \in Procs :
    (op[p] = "last" /\ Done(p) /\ DeviceMeasurements(path_device_id[p]) = {}) =>
      response[p] = NoDataFound

\* ------------------------------------------------------------------- C7
\* C7: an ingest whose payload holds a record that lacks a required nested
\* field ends like one that lacks a required top-level field: with the
\* client-facing 400 response and its message.
C7_NestedMissingIs400 ==
  \A p \in Procs :
    (IngestDone(p) /\ TopLevelOk(payload[p]) /\ ~AllWellFormed(payload[p].records)) =>
      response[p] = HTTPException400

\* ------------------------------------------------------------------- C8
\* handler p holds the internal id get_or_create_device returned to it
Resolved(p) == op[p] = "ingest" /\ device_id[p] # 0 /\ pc[p] # "commit"

C8_SameId ==
  /\ \A p \in Procs :
       Resolved(p) => [id |-> device_id[p], device_id |-> device_external_id[p]] \in devices
  /\ \A p \in Procs : \A q \in Procs :
       (Resolved(p) /\ Resolved(q) /\ device_external_id[p] = device_external_id[q]) =>
         device_id[p] = device_id[q]

C8_ResolveStep ==
  \A p \in Procs :
    LET ext == device_external_id[p] IN
    /\ (pc[p] = "select" /\ pc'[p] # "select" /\ DevicesNamed(ext) # {}) =>
         /\ StorageUnchanged
         /\ pc'[p] = "build"
         /\ \E d \in devices : d.device_id = ext /\ device_id'[p] = d.id
    /\ (pc[p] = "select" /\ pc'[p] # "select" /\ DevicesNamed(ext) = {}) =>
         pc'[p] = "insert" /\ devices' = devices
    /\ (pc[p] = "insert" /\ pc'[p] # "insert" /\ DevicesNamed(ext) = {}) =>
         pc'[p] = "commit" /\ devices' = devices
    /\ (pc[p] = "commit" /\ pc'[p] # "commit") =>
         /\ devices' = devices \cup {[id |-> device_id[p], device_id |-> ext]}
         /\ Cardinality(devices') = Cardinality(devices) + 1

\* C8: a call of get_or_create_device for a known external id leaves the
\* devices table unchanged and returns the id of the existing row; a call
\* for an unknown one that gets to insert adds exactly one row; all calls
\* for one external id return the same internal id.
C8_ResolutionIdempotent == [](C8_SameId) /\ [][C8_ResolveStep]_vars

\* one handler alone has served two ingests for the same external id: the
\* second found the row the first created, and there is one row and one id
C8_Witness ==
  \E p \in Procs :
    /\ ncalls[p] = 2 /\ \A q \in Procs \ {p} : ncalls[q] = 0
    /\ IngestDone(p) /\ result[p] # None
    /\ response[p].status = 200
    /\ devices = {[id |-> 1, device_id |-> device_external_id[p]]}
    /\ devices_id_seq = 1

\* ------------------------------------------------------------------- C9
\* C9: in every reachable state every measurement row's device reference
\* is the internal id of exactly one existing device row.
C9_MeasurementHasDevice ==
  \A m \in measurements : Cardinality({d \in devices : Some(d.id) = m.device_id}) = 1

\* measurements of two different devices are stored
C9_Witness ==
  \E m1 \in measurements : \E m2 \in measurements :
    /\ m1.device_id # m2.device_id
    /\ Cardinality(devices) = 2

\* ------------------------------------------------------------------ C10
\* handler p read not-found and has executed its INSERT
AttemptedInsert(p) ==
  /\ op[p] = "ingest" /\ device_external_id[p] # ""
  /\ result[p] = None /\ pc[p] \notin {"select", "insert"}

LostRace(p) == AttemptedInsert(p) /\ device_id[p] = 0

\* C10: of the ingests that read not-found for one external id, one creates
\* the device row; every other fails in device resolution with the
\* uniqueness violation and commits no measurement row.
C10_RaceLoserFails ==
  /\ \A p \in Procs :
       LostRace(p) =>
         /\ response[p] = ServerError("UniqueViolation")
         /\ pc[p] = "idle"
         /\ written[p] = {}
         /\ Cardinality(DevicesNamed(device_external_id[p])) = 1
  /\ \A p \in Procs :
       (AttemptedInsert(p) /\ ~LostRace(p)) =>
         /\ response[p] # ServerError("UniqueViolation")
         /\ \/ pending[p] = Some([id |-> device_id[p], device_id |-> device_external_id[p]])
            \/ DevicesNamed(device_external_id[p]) =
                 {[id |-> device_id[p], device_id |-> device_external_id[p]]}
  /\ \A p \in Procs : \A q \in Procs \ {p} :
       (AttemptedInsert(p) /\ AttemptedInsert(q)
          /\ device_external_id[p] = device_external_id[q]) =>
         LostRace(p) \/ LostRace(q)

\* both ingests carried a well-formed record; the winner stored its row,
\* the loser was answered with the uniqueness violation and stored none
C10_Witness ==
  \E p \in Procs : \E q \in Procs \ {p} :
    /\ AttemptedInsert(p) /\ LostRace(q)
    /\ device_external_id[p] = device_external_id[q]
    /\ response[p] = IngestOk(1, device_external_id[p])
    /\ Len(payload[q].records) = 1 /\ AllWellFormed(payload[q].records)
    /\ response[q] = ServerError("UniqueViolation")
    /\ Cardinality(measurements) = 1

====
